---- MODULE Spec2Model ----
(***************************************************************************)
(* Model of the calendar application's event persistence service           *)
(* (src/src/services/EventService.ts): one AsyncStorage key holding the    *)
(* JSON-serialised list of events, and the six static methods of           *)
(* EventService that read, sort, filter, validate and rewrite it.          *)
(*                                                                         *)
(* Strings are sequences of character codes (ASCII), so that trimming, the *)
(* HH:mm regular expression, the <= comparison of JavaScript strings and   *)
(* localeCompare are computed character by character.                      *)
(* The value undefined is the one-element sequence <<-1>>, which is no     *)
(* string.                                                                 *)
(***************************************************************************)
EXTENDS Integers, Sequences, FiniteSets, TLC

(***************************************************************************)
(* Bounds of the model.                                                    *)
(***************************************************************************)
\* number of uuid.v4() calls in a behaviour
MaxId == 2
\* largest value of the millisecond clock read by Date.now()
MaxClock == 1

(***************************************************************************)
(* JavaScript strings.                                                     *)
(***************************************************************************)
Undefined == <<-1>>

EmptyStr == <<>>

\* " "
Blank1 == <<32>>

\* "x", " x ", "y"
StrX == <<120>>

StrXPadded == <<32, 120, 32>>

StrY == <<121>>

\* " d " and "d"
StrDPadded == <<32, 100, 32>>

StrD == <<100>>

\* "2024-03-01"
Date0301 == <<50, 48, 50, 52, 45, 48, 51, 45, 48, 49>>

\* "20:00" passed as a date: a non-empty string that is no YYYY-MM-DD date
DateOdd == <<50, 48, 58, 48, 48>>

\* "09:00", "09:15", "10:00", "11:00"
T0900 == <<48, 57, 58, 48, 48>>

T0915 == <<48, 57, 58, 49, 53>>

T1000 == <<49, 48, 58, 48, 48>>

T1100 == <<49, 49, 58, 48, 48>>

\* "25:00", "9:00", "10:60": strings the HH:mm pattern rejects
T2500 == <<50, 53, 58, 48, 48>>

T900 == <<57, 58, 48, 48>>

T1060 == <<49, 48, 58, 54, 48>>

\* "red", a color outside the palette
ColorOther == <<114, 101, 100>>

\* DEFAULT_EVENT_COLOR = COLORS.eventGreen = '#9ACD32'
DEFAULT_EVENT_COLOR == <<35, 57, 65, 67, 68, 51, 50>>

\* the six values of the type EventColor
EventColor ==
  { <<35, 57, 65, 67, 68, 51, 50>>, <<35, 55, 67, 66, 51, 52, 50>>,
    <<35, 70, 70, 54, 66, 54, 66>>, <<35, 52, 69, 67, 68, 67, 52>>,
    <<35, 70, 70, 68, 57, 51, 68>>, <<35, 65, 55, 56, 66, 70, 65>> }

\* !s for a string-or-undefined value: undefined and '' are falsy
IsFalsy(s) == s = Undefined \/ s = EmptyStr

\* white space removed by String.prototype.trim (space, tab, LF, CR)
IsWhiteSpace(c) == c \in {32, 9, 10, 13}

IsDigit(c) == c \in 48..57

RECURSIVE TrimStart(_)
TrimStart(s) ==
  IF s = <<>> THEN <<>>
  ELSE IF IsWhiteSpace(Head(s)) THEN TrimStart(Tail(s)) ELSE s

RECURSIVE TrimEnd(_)
TrimEnd(s) ==
  IF s = <<>> THEN <<>>
  ELSE IF IsWhiteSpace(s[Len(s)]) THEN TrimEnd(SubSeq(s, 1, Len(s) - 1)) ELSE s

\* String.prototype.trim
\* trimStart() in place of trim()
trim_startOnly(s) == TrimStart(s)

trim(s) == TrimEnd(TrimStart(s))

\* s?.trim()
OptTrim(s) == IF s = Undefined THEN Undefined ELSE trim(s)

\* a < b on JavaScript strings: comparison of the code units, left to right
RECURSIVE StrLess(_, _)
StrLess(a, b) ==
  IF b = <<>> THEN FALSE
  ELSE IF a = <<>> THEN TRUE
  ELSE IF Head(a) # Head(b) THEN Head(a) < Head(b)
  ELSE StrLess(Tail(a), Tail(b))

\* a <= b on JavaScript strings
StrLeq(a, b) == a = b \/ StrLess(a, b)

(***************************************************************************)
(* String.prototype.localeCompare: the collation order of the platform     *)
(* (ICU / CLDR root order on ASCII): white space and punctuation sort      *)
(* before the digits, the digits before the letters, and a lower-case      *)
(* letter before its upper-case letter when the strings are otherwise      *)
(* equal.                                                                  *)
(***************************************************************************)
\* primary weight: the letters of both cases share one weight
PrimaryWeight(c) ==
  IF c \in 48..57 THEN 200 + (c - 48)
  ELSE IF c \in 97..122 THEN 300 + (c - 97)
  ELSE IF c \in 65..90 THEN 300 + (c - 65)
  ELSE c

\* tertiary weight: lower case before upper case
TertiaryWeight(c) == IF c \in 65..90 THEN 1 ELSE 0

\* -1, 0 or 1: lexicographic comparison of two sequences of weights
RECURSIVE CompareWeights(_, _)
CompareWeights(ka, kb) ==
  IF ka = <<>> /\ kb = <<>> THEN 0
  ELSE IF ka = <<>> THEN -1
  ELSE IF kb = <<>> THEN 1
  ELSE IF Head(ka) < Head(kb) THEN -1
  ELSE IF Head(ka) > Head(kb) THEN 1
  ELSE CompareWeights(Tail(ka), Tail(kb))

PrimaryKey(s) == [i \in 1..Len(s) |-> PrimaryWeight(s[i])]

TertiaryKey(s) == [i \in 1..Len(s) |-> TertiaryWeight(s[i])]

localeCompare(a, b) ==
  IF CompareWeights(PrimaryKey(a), PrimaryKey(b)) # 0
  THEN CompareWeights(PrimaryKey(a), PrimaryKey(b))
  ELSE CompareWeights(TertiaryKey(a), TertiaryKey(b))

(***************************************************************************)
(* EventFormData and validateEventData.                                    *)
(***************************************************************************)
Form(t, d, dt, st, et, c) ==
  [title |-> t, description |-> d, date |-> dt, startTime |-> st,
   endTime |-> et, color |-> c]

\* the pattern /^\d\d:\d\d$/, which bounds neither the hour nor the minute
timeRegexTest_anyDigits(s) ==
  /\ Len(s) = 5
  /\ IsDigit(s[1])
  /\ IsDigit(s[2])
  /\ s[3] = 58
  /\ IsDigit(s[4])
  /\ IsDigit(s[5])

\* /^([01]\d|2[0-3]):([0-5]\d)$/.test(s)
timeRegexTest(s) ==
  /\ Len(s) = 5
  /\ \/ s[1] \in {48, 49} /\ IsDigit(s[2])
     \/ s[1] = 50 /\ s[2] \in 48..51
  /\ s[3] = 58
  /\ s[4] \in 48..53
  /\ IsDigit(s[5])

\* validateEventData without the test of the end time against the pattern
validateEventData_noEndFormat(eventData) ==
  IF IsFalsy(eventData.title) \/ Len(trim(eventData.title)) = 0
    THEN "Event title is required"
  ELSE IF IsFalsy(eventData.date) THEN "Event date is required"
  ELSE IF IsFalsy(eventData.startTime) THEN "Start time is required"
  ELSE IF IsFalsy(eventData.endTime) THEN "End time is required"
  ELSE IF ~timeRegexTest(eventData.startTime) THEN "Invalid start time format"
  ELSE IF StrLeq(eventData.endTime, eventData.startTime)
    THEN "End time must be after start time"
  ELSE ""

\* validateEventData with the end time looked at before the start time
validateEventData_endFirst(eventData) ==
  IF IsFalsy(eventData.title) \/ Len(trim(eventData.title)) = 0
    THEN "Event title is required"
  ELSE IF IsFalsy(eventData.date) THEN "Event date is required"
  ELSE IF IsFalsy(eventData.endTime) THEN "End time is required"
  ELSE IF IsFalsy(eventData.startTime) THEN "Start time is required"
  ELSE IF ~timeRegexTest(eventData.endTime) THEN "Invalid end time format"
  ELSE IF ~timeRegexTest(eventData.startTime) THEN "Invalid start time format"
  ELSE IF StrLeq(eventData.endTime, eventData.startTime)
    THEN "End time must be after start time"
  ELSE ""

\* the message of the Error validateEventData throws, "" when it returns
validateEventData(eventData) ==
  IF IsFalsy(eventData.title) \/ Len(trim(eventData.title)) = 0
    THEN "Event title is required"
  ELSE IF IsFalsy(eventData.date) THEN "Event date is required"
  ELSE IF IsFalsy(eventData.startTime) THEN "Start time is required"
  ELSE IF IsFalsy(eventData.endTime) THEN "End time is required"
  ELSE IF ~timeRegexTest(eventData.startTime) THEN "Invalid start time format"
  ELSE IF ~timeRegexTest(eventData.endTime) THEN "Invalid end time format"
  ELSE IF StrLeq(eventData.endTime, eventData.startTime)
    THEN "End time must be after start time"
  ELSE ""

(***************************************************************************)
(* The AsyncStorage backend: the value under STORAGE_KEYS.EVENTS is absent *)
(* or a JSON text, kept here as the sequence of the serialised objects.    *)
(* A call that fails rejects and leaves the stored value as it was.        *)
(***************************************************************************)
Absent == [present |-> FALSE, items |-> <<>>]

\* AsyncStorage.getItem(STORAGE_KEYS.EVENTS)
getItem(st, fails) ==
  [threw |-> fails, isNull |-> ~st.present, text |-> st.items]

\* AsyncStorage.setItem(STORAGE_KEYS.EVENTS, text)
setItem(st, text, fails) ==
  IF fails THEN [threw |-> TRUE, storage |-> st]
  ELSE [threw |-> FALSE, storage |-> [present |-> TRUE, items |-> text]]

\* AsyncStorage.removeItem(STORAGE_KEYS.EVENTS)
removeItem(st, fails) ==
  IF fails THEN [threw |-> TRUE, storage |-> st]
  ELSE [threw |-> FALSE, storage |-> Absent]

(***************************************************************************)
(* JSON.stringify leaves out a property whose value is undefined, and an   *)
(* object read back by JSON.parse yields undefined for a property it does  *)
(* not have.  A CalendarEvent in memory is a record with all nine fields.  *)
(***************************************************************************)
stringifyEvent(e) ==
  IF e.description = Undefined
  THEN [k \in (DOMAIN e) \ {"description"} |-> e[k]]
  ELSE e

JSONstringify(events) == [i \in 1..Len(events) |-> stringifyEvent(events[i])]

parseEvent(j) ==
  [id |-> j.id, title |-> j.title,
   description |-> IF "description" \in DOMAIN j THEN j.description ELSE Undefined,
   date |-> j.date, startTime |-> j.startTime, endTime |-> j.endTime,
   color |-> j.color, createdAt |-> j.createdAt, updatedAt |-> j.updatedAt]

JSONparse(text) == [i \in 1..Len(text) |-> parseEvent(text[i])]

(***************************************************************************)
(* EventService.getAllEvents: the comparator and Array.prototype.sort,     *)
(* which is stable (elements that compare equal keep their order).         *)
(***************************************************************************)
compareEvents(a, b) ==
  IF a.date = b.date THEN localeCompare(a.startTime, b.startTime)
  ELSE localeCompare(a.date, b.date)

\* a sort that is not stable: e placed in front of the elements equal to it
RECURSIVE InsertSorted_beforeEqual(_, _)
InsertSorted_beforeEqual(e, sorted) ==
  IF sorted = <<>> THEN <<e>>
  ELSE IF compareEvents(e, Head(sorted)) <= 0 THEN <<e>> \o sorted
  ELSE <<Head(sorted)>> \o InsertSorted_beforeEqual(e, Tail(sorted))

\* e placed behind every element of the sorted sequence that is not after it
RECURSIVE InsertSorted(_, _)
InsertSorted(e, sorted) ==
  IF sorted = <<>> THEN <<e>>
  ELSE IF compareEvents(e, Head(sorted)) < 0 THEN <<e>> \o sorted
  ELSE <<Head(sorted)>> \o InsertSorted(e, Tail(sorted))

RECURSIVE SortPrefix(_, _)
SortPrefix(events, n) ==
  IF n = 0 THEN <<>> ELSE InsertSorted(events[n], SortPrefix(events, n - 1))

sort(events) == SortPrefix(events, Len(events))

\* getAllEvents whose catch block rethrows the error it caught
getAllEvents_rethrows(st, rd) ==
  LET eventsJson == getItem(st, rd) IN
  IF eventsJson.threw
  THEN [threw |-> TRUE, error |-> "AsyncStorage error", events |-> <<>>]
  ELSE IF eventsJson.isNull
  THEN [threw |-> FALSE, error |-> "", events |-> <<>>]
  ELSE [threw |-> FALSE, error |-> "",
        events |-> sort(JSONparse(eventsJson.text))]

\* rd: getItem rejects, or JSON.parse throws on the text it resolved with
getAllEvents(st, rd) ==
  LET eventsJson == getItem(st, rd) IN
  IF eventsJson.threw
  THEN [threw |-> TRUE, error |-> "Failed to load events", events |-> <<>>]
  ELSE IF eventsJson.isNull
  THEN [threw |-> FALSE, error |-> "", events |-> <<>>]
  ELSE [threw |-> FALSE, error |-> "",
        events |-> sort(JSONparse(eventsJson.text))]

\* the filter with <= in place of ===
filterByDate_notAfter(events, date) ==
  SelectSeq(events, LAMBDA event : StrLeq(event.date, date))

\* events.filter(event => event.date === date)
filterByDate(events, date) == SelectSeq(events, LAMBDA event : event.date = date)

(***************************************************************************)
(* What a call of the service did: the stored value it leaves, whether it  *)
(* resolved ("ok") or rejected ("error") and with which message, the       *)
(* events it resolved with (a created or updated event is a sequence of    *)
(* one, null and void are the empty sequence), the backend calls it        *)
(* issued, and the uuid and the clock it consumed.                         *)
(***************************************************************************)
Outcome(st, status, error, value, reads, writes, failedAt, ids, clock) ==
  [storage |-> st, status |-> status, error |-> error, value |-> value,
   reads |-> reads, writes |-> writes, failedAt |-> failedAt,
   ids |-> ids, clock |-> clock]

getAllEventsCall(st, rd, clock) ==
  LET loaded == getAllEvents(st, rd) IN
  IF loaded.threw
  THEN Outcome(st, "error", loaded.error, <<>>, 1, 0, "read", 0, clock)
  ELSE Outcome(st, "ok", "", loaded.events, 1, 0, "", 0, clock)

getEventsByDate(st, date, rd, clock) ==
  LET allEvents == getAllEvents(st, rd) IN
  IF allEvents.threw
  THEN Outcome(st, "error", allEvents.error, <<>>, 1, 0, "read", 0, clock)
  ELSE Outcome(st, "ok", "", filterByDate(allEvents.events, date),
               1, 0, "", 0, clock)

\* the default for every color that is not one of the palette
colorOrDefault_paletteOnly(c) == IF c \in EventColor THEN c ELSE DEFAULT_EVENT_COLOR

\* eventData.color || DEFAULT_EVENT_COLOR
colorOrDefault(c) == IF IsFalsy(c) THEN DEFAULT_EVENT_COLOR ELSE c

\* the object literal with a constant in place of uuid.v4()
newEventOf_sameId(eventData, id, t1, t2) ==
  [id |-> 1,
   title |-> trim(eventData.title),
   description |-> OptTrim(eventData.description),
   date |-> eventData.date,
   startTime |-> eventData.startTime,
   endTime |-> eventData.endTime,
   color |-> colorOrDefault(eventData.color),
   createdAt |-> t1,
   updatedAt |-> t2]

\* the object literal of createEvent; t1 and t2 are its two Date.now() reads
newEventOf(eventData, id, t1, t2) ==
  [id |-> id,
   title |-> trim(eventData.title),
   description |-> OptTrim(eventData.description),
   date |-> eventData.date,
   startTime |-> eventData.startTime,
   endTime |-> eventData.endTime,
   color |-> colorOrDefault(eventData.color),
   createdAt |-> t1,
   updatedAt |-> t2]

\* createEvent that resolves with the new event although the write failed
createEvent_optimistic(st, eventData, id, t1, t2, rd, wr, clock) ==
  LET msg == validateEventData(eventData) IN
  IF msg # "" THEN Outcome(st, "error", msg, <<>>, 0, 0, "validation", 0, clock)
  ELSE
    LET newEvent == newEventOf(eventData, id, t1, t2)
        loaded == getAllEvents(st, rd)
    IN
    IF loaded.threw
    THEN Outcome(st, "error", "Failed to create event", <<>>, 1, 0, "read", 1, t2)
    ELSE
      LET allEvents == Append(loaded.events, newEvent)
          w == setItem(st, JSONstringify(allEvents), wr)
      IN
      IF w.threw
      THEN Outcome(w.storage, "ok", "", <<newEvent>>, 1, 1, "write", 1, t2)
      ELSE Outcome(w.storage, "ok", "", <<newEvent>>, 1, 1, "", 1, t2)

createEvent(st, eventData, id, t1, t2, rd, wr, clock) ==
  LET msg == validateEventData(eventData) IN
  IF msg # "" THEN Outcome(st, "error", msg, <<>>, 0, 0, "validation", 0, clock)
  ELSE
    LET newEvent == newEventOf(eventData, id, t1, t2)
        loaded == getAllEvents(st, rd)
    IN
    IF loaded.threw
    THEN Outcome(st, "error", "Failed to create event", <<>>, 1, 0, "read", 1, t2)
    ELSE
      LET allEvents == Append(loaded.events, newEvent)
          w == setItem(st, JSONstringify(allEvents), wr)
      IN
      IF w.threw
      THEN Outcome(w.storage, "error", "Failed to create event", <<>>,
                   1, 1, "write", 1, t2)
      ELSE Outcome(w.storage, "ok", "", <<newEvent>>, 1, 1, "", 1, t2)

\* allEvents.findIndex(event => event.id === id): 0 stands for -1
RECURSIVE findIndexFrom(_, _, _)
findIndexFrom(events, id, i) ==
  IF i > Len(events) THEN 0
  ELSE IF events[i].id = id THEN i
  ELSE findIndexFrom(events, id, i + 1)

\* findIndex with the predicate event.id !== id
findIndex_notEqual(events, id) ==
  IF \E i \in 1..Len(events) : events[i].id # id
  THEN CHOOSE i \in 1..Len(events) :
         /\ events[i].id # id
         /\ \A j \in 1..(i - 1) : events[j].id = id
  ELSE 0

findIndex(events, id) == findIndexFrom(events, id, 1)

\* the object literal with createdAt: Date.now() as in createEvent
updatedEventOf_newCreatedAt(old, eventData, t) ==
  [old EXCEPT
     !.title = trim(eventData.title),
     !.description = OptTrim(eventData.description),
     !.date = eventData.date,
     !.startTime = eventData.startTime,
     !.endTime = eventData.endTime,
     !.color = colorOrDefault(eventData.color),
     !.createdAt = t,
     !.updatedAt = t]

\* the object literal of updateEvent; t is its Date.now() read
updatedEventOf(old, eventData, t) ==
  [old EXCEPT
     !.title = trim(eventData.title),
     !.description = OptTrim(eventData.description),
     !.date = eventData.date,
     !.startTime = eventData.startTime,
     !.endTime = eventData.endTime,
     !.color = colorOrDefault(eventData.color),
     !.updatedAt = t]

\* updateEvent without the early return for eventIndex === -1: the form's
\* fields are spread over undefined, assigned to allEvents[-1] (no element
\* of the array) and the loaded list is written back
updateEvent_noMissingReturn(st, id, eventData, t, rd, wr, clock) ==
  LET msg == validateEventData(eventData) IN
  IF msg # "" THEN Outcome(st, "error", msg, <<>>, 0, 0, "validation", 0, clock)
  ELSE
    LET loaded == getAllEvents(st, rd) IN
    IF loaded.threw
    THEN Outcome(st, "error", "Failed to update event", <<>>, 1, 0, "read", 0, clock)
    ELSE
      LET eventIndex == findIndex(loaded.events, id)
          updatedEvent ==
            IF eventIndex = 0
            THEN [title |-> trim(eventData.title),
                  description |-> OptTrim(eventData.description),
                  date |-> eventData.date,
                  startTime |-> eventData.startTime,
                  endTime |-> eventData.endTime,
                  color |-> colorOrDefault(eventData.color),
                  updatedAt |-> t]
            ELSE updatedEventOf(loaded.events[eventIndex], eventData, t)
          allEvents ==
            IF eventIndex = 0 THEN loaded.events
            ELSE [loaded.events EXCEPT ![eventIndex] = updatedEvent]
          w == setItem(st, JSONstringify(allEvents), wr)
      IN
      IF w.threw
      THEN Outcome(w.storage, "error", "Failed to update event", <<>>,
                   1, 1, "write", 0, t)
      ELSE Outcome(w.storage, "ok", "", <<updatedEvent>>, 1, 1, "", 0, t)

updateEvent(st, id, eventData, t, rd, wr, clock) ==
  LET msg == validateEventData(eventData) IN
  IF msg # "" THEN Outcome(st, "error", msg, <<>>, 0, 0, "validation", 0, clock)
  ELSE
    LET loaded == getAllEvents(st, rd) IN
    IF loaded.threw
    THEN Outcome(st, "error", "Failed to update event", <<>>, 1, 0, "read", 0, clock)
    ELSE
      LET eventIndex == findIndex(loaded.events, id) IN
      IF eventIndex = 0
      THEN Outcome(st, "ok", "", <<>>, 1, 0, "", 0, clock)
      ELSE
        LET updatedEvent == updatedEventOf(loaded.events[eventIndex], eventData, t)
            allEvents == [loaded.events EXCEPT ![eventIndex] = updatedEvent]
            w == setItem(st, JSONstringify(allEvents), wr)
        IN
        IF w.threw
        THEN Outcome(w.storage, "error", "Failed to update event", <<>>,
                     1, 1, "write", 0, t)
        ELSE Outcome(w.storage, "ok", "", <<updatedEvent>>, 1, 1, "", 0, t)

\* deleteEvent by findIndex and splice(index, 1): for index -1 splice removes
\* the last element
deleteEvent_splice(st, id, rd, wr, clock) ==
  LET loaded == getAllEvents(st, rd) IN
  IF loaded.threw
  THEN Outcome(st, "error", "Failed to delete event", <<>>, 1, 0, "read", 0, clock)
  ELSE
    LET eventIndex == findIndex(loaded.events, id)
        cut == IF eventIndex = 0 THEN Len(loaded.events) ELSE eventIndex
        filteredEvents ==
          SubSeq(loaded.events, 1, cut - 1)
            \o SubSeq(loaded.events, cut + 1, Len(loaded.events))
        w == setItem(st, JSONstringify(filteredEvents), wr)
    IN
    IF w.threw
    THEN Outcome(w.storage, "error", "Failed to delete event", <<>>,
                 1, 1, "write", 0, clock)
    ELSE Outcome(w.storage, "ok", "", <<>>, 1, 1, "", 0, clock)

\* deleteEvent that writes only when an event was removed
deleteEvent_skipWrite(st, id, rd, wr, clock) ==
  LET loaded == getAllEvents(st, rd) IN
  IF loaded.threw
  THEN Outcome(st, "error", "Failed to delete event", <<>>, 1, 0, "read", 0, clock)
  ELSE
    LET filteredEvents == SelectSeq(loaded.events, LAMBDA event : event.id # id) IN
    IF Len(filteredEvents) = Len(loaded.events)
    THEN Outcome(st, "ok", "", <<>>, 1, 0, "", 0, clock)
    ELSE
      LET w == setItem(st, JSONstringify(filteredEvents), wr) IN
      IF w.threw
      THEN Outcome(w.storage, "error", "Failed to delete event", <<>>,
                   1, 1, "write", 0, clock)
      ELSE Outcome(w.storage, "ok", "", <<>>, 1, 1, "", 0, clock)

deleteEvent(st, id, rd, wr, clock) ==
  LET loaded == getAllEvents(st, rd) IN
  IF loaded.threw
  THEN Outcome(st, "error", "Failed to delete event", <<>>, 1, 0, "read", 0, clock)
  ELSE
    LET filteredEvents == SelectSeq(loaded.events, LAMBDA event : event.id # id)
        w == setItem(st, JSONstringify(filteredEvents), wr)
    IN
    IF w.threw
    THEN Outcome(w.storage, "error", "Failed to delete event", <<>>,
                 1, 1, "write", 0, clock)
    ELSE Outcome(w.storage, "ok", "", <<>>, 1, 1, "", 0, clock)

\* clearAllEvents that stores the empty list instead of removing the key
clearAllEvents_storesEmpty(st, wr, clock) ==
  LET w == setItem(st, JSONstringify(<<>>), wr) IN
  IF w.threw
  THEN Outcome(w.storage, "error", "Failed to clear events", <<>>,
               0, 1, "write", 0, clock)
  ELSE Outcome(w.storage, "ok", "", <<>>, 0, 1, "", 0, clock)

clearAllEvents(st, wr, clock) ==
  LET w == removeItem(st, wr) IN
  IF w.threw
  THEN Outcome(w.storage, "error", "Failed to clear events", <<>>,
               0, 1, "write", 0, clock)
  ELSE Outcome(w.storage, "ok", "", <<>>, 0, 1, "", 0, clock)

(***************************************************************************)
(* The inputs of the calls.                                                *)
(***************************************************************************)
\* " x " / no description / no color
FormA == Form(StrXPadded, Undefined, Date0301, T1000, T1100, Undefined)

\* earlier on the same day, description " d ", color ''
FormB == Form(StrY, StrDPadded, Date0301, T0900, T0915, EmptyStr)

\* a date that is no YYYY-MM-DD date, description '', a color outside the palette
FormOdd == Form(StrX, EmptyStr, DateOdd, T0900, T1000, ColorOther)

ValidForms == {FormA, FormB, FormOdd}

\* one form per validation rule, a start time without its leading zero, and
\* the form with every required field empty
InvalidForms ==
  { Form(Blank1, Undefined, Date0301, T1000, T1100, Undefined),
    Form(StrX, Undefined, EmptyStr, T1000, T1100, Undefined),
    Form(StrX, Undefined, Date0301, EmptyStr, T1100, Undefined),
    Form(StrX, Undefined, Date0301, T1000, EmptyStr, Undefined),
    Form(StrX, Undefined, Date0301, T2500, T1100, Undefined),
    Form(StrX, Undefined, Date0301, T1000, T1060, Undefined),
    Form(StrX, Undefined, Date0301, T1100, T1000, Undefined),
    Form(StrX, Undefined, Date0301, T900, T1100, Undefined),
    Form(EmptyStr, Undefined, EmptyStr, EmptyStr, EmptyStr, Undefined) }

Forms == ValidForms \cup InvalidForms

Dates == {Date0301, DateOdd}

\* the ids a caller passes: every uuid of the behaviour, and one more id that
\* uuid.v4() never returns
Ids == 1..(MaxId + 1)

\* which backend call of the operation fails
Faults == {"none", "read", "write"}

NoForm == Form(Undefined, Undefined, Undefined, Undefined, Undefined, Undefined)

(***************************************************************************)
(* State.                                                                  *)
(*   storage  the value under STORAGE_KEYS.EVENTS                          *)
(*   now      the millisecond clock, as last read by Date.now()            *)
(*   nextId   the next value of uuid.v4() (uuids are unique; they are      *)
(*            numbered in the order in which they are drawn)               *)
(*   last     the call of the service that has just settled, its arguments *)
(*            and its outcome; op = "none" once the caller has taken it    *)
(*   pre      the stored value when that call began                        *)
(*   delRun   the id of the latest successful deleteEvent call and how     *)
(*            many such calls with that id were made in a row (up to 2)    *)
(*   calls    the calls of the service that overlap: for each of the two   *)
(*            callers, how far its call has run and what it holds          *)
(*   log      the backend reads and writes of the overlapping calls, in    *)
(*            the order in which the backend served them                   *)
(*   store    the state of useEventStore                                   *)
(*   loaded   loadEvents has resolved with the events, and every call of   *)
(*            the store since then has succeeded                           *)
(*   storeLast  the call of the store that has just settled: its           *)
(*            arguments, the outcome of its call of the service, whether   *)
(*            it rejected to its caller, and the state of the store when   *)
(*            it began; op = "none" once the caller has taken it           *)
(*   view     what a screen has computed from the time of day or from the  *)
(*            events it was given                                          *)
(***************************************************************************)
VARIABLES storage, now, nextId, last, pre, delRun, calls, log, store, loaded,
          storeLast, view

vars ==
  <<storage, now, nextId, last, pre, delRun, calls, log, store, loaded,
    storeLast, view>>

\* the two callers whose calls overlap
Procs == {1, 2}

\* a caller with no call in progress
NoFlight ==
  [pc |-> "idle", op |-> "none", id |-> 0, form |-> NoForm, event |-> <<>>,
   snapshot |-> Absent, text |-> <<>>, status |-> ""]

\* null
Null == "null"

\* the initial state of create<EventStore>(...); the selected date is the day
\* the application starts
InitialStore ==
  [events |-> <<>>, selectedDate |-> Date0301, isLoading |-> FALSE,
   error |-> Null]

\* a settled call of the store
StoreCall(op, id, form, out, rejected, before) ==
  [op |-> op, id |-> id, form |-> form, status |-> out.status,
   error |-> out.error, value |-> out.value, failedAt |-> out.failedAt,
   rejected |-> rejected, before |-> before]

\* a screen that has computed nothing
NoView == [kind |-> "none"]

Call(op, id, form, date, out) ==
  [op |-> op, id |-> id, form |-> form, date |-> date,
   status |-> out.status, error |-> out.error, value |-> out.value,
   reads |-> out.reads, writes |-> out.writes, failedAt |-> out.failedAt]

NoCall ==
  Call("none", 0, NoForm, Undefined,
       Outcome(Absent, "ok", "", <<>>, 0, 0, "", 0, 0))

NoRun == [id |-> 0, n |-> 0]

NoStoreCall ==
  StoreCall("none", 0, NoForm, Outcome(Absent, "ok", "", <<>>, 0, 0, "", 0, 0),
            FALSE, InitialStore)

Init ==
  /\ storage = Absent
  /\ now = 0
  /\ nextId = 1
  /\ last = NoCall
  /\ pre = Absent
  /\ delRun = NoRun
  /\ calls = [p \in Procs |-> NoFlight]
  /\ log = <<>>
  /\ store = InitialStore
  /\ loaded = FALSE
  /\ storeLast = NoStoreCall
  /\ view = NoView

\* the values Date.now() can return when the clock was last seen at t
ClockAfter(t) == {u \in {t, t + 1} : u <= MaxClock}

\* a call runs to its end and leaves its outcome
Record(op, id, form, date, outcome) ==
  /\ UNCHANGED <<calls, log, store, loaded, storeLast, view>>
  /\ \E out \in {outcome} :
       /\ nextId + out.ids <= MaxId + 1
       /\ storage' = out.storage
       /\ now' = out.clock
       /\ nextId' = nextId + out.ids
       /\ last' = Call(op, id, form, date, out)
       /\ pre' = storage
       /\ delRun' =
            IF op = "deleteEvent" /\ out.status = "ok"
            THEN IF delRun.id = id
                 THEN [id |-> id, n |-> IF delRun.n < 2 THEN delRun.n + 1 ELSE 2]
                 ELSE [id |-> id, n |-> 1]
            ELSE NoRun

\* a call is made when no other call of the service is in progress
Finish(op, id, form, date, outcome) ==
  /\ last = NoCall
  /\ Record(op, id, form, date, outcome)

GetAllEvents ==
  \E fault \in Faults \ {"write"} :
    Finish("getAllEvents", 0, NoForm, Undefined,
           getAllEventsCall(storage, fault = "read", now))

GetEventsByDate ==
  \E date \in Dates, fault \in Faults \ {"write"} :
    Finish("getEventsByDate", 0, NoForm, date,
           getEventsByDate(storage, date, fault = "read", now))

\* the backend failures and clock readings a call with this form can meet:
\* a form that validateEventData rejects reaches neither the backend nor
\* Date.now()
EnvOf(eventData) ==
  IF validateEventData(eventData) # ""
  THEN {[fault |-> "none", t1 |-> now, t2 |-> now]}
  ELSE {[fault |-> fault, t1 |-> t1, t2 |-> t2] :
          fault \in Faults, t1 \in ClockAfter(now),
          t2 \in ClockAfter(now) \cup ClockAfter(now + 1)}

CreateEvent ==
  \E eventData \in Forms :
    \E env \in EnvOf(eventData) :
      /\ env.t2 \in ClockAfter(env.t1)
      /\ Finish("createEvent", 0, eventData, Undefined,
                createEvent(storage, eventData, nextId, env.t1, env.t2,
                            env.fault = "read", env.fault = "write", now))

UpdateEvent ==
  \E id \in Ids, eventData \in Forms :
    \E env \in EnvOf(eventData) :
      /\ env.t2 = env.t1
      /\ Finish("updateEvent", id, eventData, Undefined,
                updateEvent(storage, id, eventData, env.t1,
                            env.fault = "read", env.fault = "write", now))

DeleteEvent ==
  \E id \in Ids, fault \in Faults :
    Finish("deleteEvent", id, NoForm, Undefined,
           deleteEvent(storage, id, fault = "read", fault = "write", now))

ClearAllEvents ==
  \E fault \in Faults \ {"read"} :
    Finish("clearAllEvents", 0, NoForm, Undefined,
           clearAllEvents(storage, fault = "write", now))

\* the caller has the outcome of its call; the service keeps nothing of it
Settled ==
  /\ last # NoCall
  /\ last' = NoCall
  /\ pre' = Absent
  /\ UNCHANGED <<storage, now, nextId, delRun, calls, log, store, loaded,
                 storeLast, view>>

Next ==
  \/ GetAllEvents
  \/ GetEventsByDate
  \/ CreateEvent
  \/ UpdateEvent
  \/ DeleteEvent
  \/ ClearAllEvents
  \/ Settled

Spec == Init /\ [][Next]_vars

(***************************************************************************)
(* Validation on its own: a form is drawn from the product of the values   *)
(* below, and createEvent or updateEvent is called with it once.           *)
(***************************************************************************)
FormTitles == {Undefined, EmptyStr, Blank1, StrXPadded}

FormDates == {EmptyStr, Date0301}

FormTimes == {EmptyStr, T0900, T1000, T2500, T900, T1060}

DrawnForms ==
  {Form(t, Undefined, dt, st, et, Undefined) :
     t \in FormTitles, dt \in FormDates, st \in FormTimes, et \in FormTimes}

\* the form is in the caller's hands, no call made yet
Drawn(eventData) ==
  Call("input", 0, eventData, Undefined,
       Outcome(Absent, "", "", <<>>, 0, 0, "", 0, 0))

InitValidation ==
  /\ storage = Absent
  /\ now = 0
  /\ nextId = 1
  /\ last \in {Drawn(eventData) : eventData \in DrawnForms}
  /\ pre = Absent
  /\ delRun = NoRun
  /\ calls = [p \in Procs |-> NoFlight]
  /\ log = <<>>
  /\ store = InitialStore
  /\ loaded = FALSE
  /\ storeLast = NoStoreCall
  /\ view = NoView

CreateEventOnInput ==
  /\ last.op = "input"
  /\ \E env \in EnvOf(last.form) :
       /\ env.t2 \in ClockAfter(env.t1)
       /\ Record("createEvent", 0, last.form, Undefined,
                 createEvent(storage, last.form, nextId, env.t1, env.t2,
                             env.fault = "read", env.fault = "write", now))

UpdateEventOnInput ==
  /\ last.op = "input"
  /\ \E id \in Ids, env \in EnvOf(last.form) :
       /\ env.t2 = env.t1
       /\ Record("updateEvent", id, last.form, Undefined,
                 updateEvent(storage, id, last.form, env.t1,
                             env.fault = "read", env.fault = "write", now))

NextValidation ==
  \/ CreateEventOnInput
  \/ UpdateEventOnInput

SpecValidation == InitValidation /\ [][NextValidation]_vars

(***************************************************************************)
(* Overlapping calls.  createEvent, updateEvent and deleteEvent are async  *)
(* methods: a call runs up to its await of getAllEvents(), goes on when    *)
(* the backend has served the getItem, runs up to its await of setItem,    *)
(* and settles when the backend has served the setItem.  Between these     *)
(* points the steps of another call can run.  The backend serves every     *)
(* request here; what a call computes from the text it read is what the    *)
(* method computes, createEvent/updateEvent/deleteEvent above applied to   *)
(* the value the backend held when it served the read.                     *)
(***************************************************************************)
\* the forms of the overlapping calls: the valid ones, and one that validation
\* rejects (a rejected call ends before its first await)
OverlapForms ==
  ValidForms \cup {Form(Blank1, Undefined, Date0301, T1000, T1100, Undefined)}

InFlight(p, pc, op, id, form, event, snapshot, text, status) ==
  [calls EXCEPT ![p] =
     [pc |-> pc, op |-> op, id |-> id, form |-> form, event |-> event,
      snapshot |-> snapshot, text |-> text, status |-> status]]

\* the synchronous start of createEvent: validation, the object literal with
\* uuid.v4() and the two Date.now(), and the request of the read
BeginCreate(p) ==
  /\ calls[p].pc = "idle"
  /\ \E eventData \in OverlapForms :
       IF validateEventData(eventData) # ""
       THEN /\ calls' = InFlight(p, "done", "createEvent", 0, eventData, <<>>,
                                 Absent, <<>>, "error")
            /\ UNCHANGED <<now, nextId>>
       ELSE \E t1 \in ClockAfter(now) : \E t2 \in ClockAfter(t1) :
              /\ nextId <= MaxId
              /\ calls' = InFlight(p, "reading", "createEvent", 0, eventData,
                                   <<newEventOf(eventData, nextId, t1, t2)>>,
                                   Absent, <<>>, "")
              /\ nextId' = nextId + 1
              /\ now' = t2
  /\ UNCHANGED <<storage, last, pre, delRun, log, store, loaded, storeLast,
                 view>>

\* the synchronous start of updateEvent: validation and the request of the read
BeginUpdate(p) ==
  /\ calls[p].pc = "idle"
  /\ \E id \in Ids, eventData \in OverlapForms :
       IF validateEventData(eventData) # ""
       THEN calls' = InFlight(p, "done", "updateEvent", id, eventData, <<>>,
                              Absent, <<>>, "error")
       ELSE calls' = InFlight(p, "reading", "updateEvent", id, eventData, <<>>,
                              Absent, <<>>, "")
  /\ UNCHANGED <<storage, now, nextId, last, pre, delRun, log, store, loaded,
                 storeLast, view>>

\* the synchronous start of deleteEvent: the request of the read
BeginDelete(p) ==
  /\ calls[p].pc = "idle"
  /\ \E id \in Ids :
       calls' = InFlight(p, "reading", "deleteEvent", id, NoForm, <<>>,
                         Absent, <<>>, "")
  /\ UNCHANGED <<storage, now, nextId, last, pre, delRun, log, store, loaded,
                 storeLast, view>>

\* what the call of p does with the stored value it reads; t is the
\* Date.now() of updateEvent
Computed(p, t) ==
  LET c == calls[p] IN
  CASE c.op = "createEvent" ->
         createEvent(storage, c.form, c.event[1].id, c.event[1].createdAt,
                     c.event[1].updatedAt, FALSE, FALSE, now)
    [] c.op = "updateEvent" ->
         updateEvent(storage, c.id, c.form, t, FALSE, FALSE, now)
    [] c.op = "deleteEvent" ->
         deleteEvent(storage, c.id, FALSE, FALSE, now)

\* the backend serves the getItem of p's call, and the call runs on to its
\* setItem request, or to its end when it has nothing to write (updateEvent
\* of an id that is not stored)
Read(p) ==
  /\ calls[p].pc = "reading"
  /\ \E t \in ClockAfter(now) :
       /\ calls[p].op # "updateEvent" => t = now
       /\ \E out \in {Computed(p, t)} :
            /\ calls' =
                 IF out.writes = 0
                 THEN InFlight(p, "done", calls[p].op, calls[p].id,
                               calls[p].form, out.value, storage, <<>>, "ok")
                 ELSE InFlight(p, "writing", calls[p].op, calls[p].id,
                               calls[p].form, out.value, storage,
                               out.storage.items, "")
            /\ now' = out.clock
  /\ log' = Append(log, <<p, "read">>)
  /\ UNCHANGED <<storage, nextId, last, pre, delRun, store, loaded,
                 storeLast, view>>

\* a backend that keeps, next to the text it is given, the events stored
\* since the writer read
Served_merging(st, c) ==
  [present |-> TRUE,
   items |-> c.text \o
             SelectSeq(st.items,
                       LAMBDA j : \A k \in 1..Len(c.snapshot.items) :
                                    c.snapshot.items[k].id # j.id)]

\* the stored value once the backend has served the setItem of call c
Served(st, c) == setItem(st, c.text, FALSE).storage

\* the backend serves the setItem of p's call, and the call resolves
Write(p) ==
  /\ calls[p].pc = "writing"
  /\ storage' = Served(storage, calls[p])
  /\ calls' = [calls EXCEPT ![p].pc = "done", ![p].status = "ok"]
  /\ log' = Append(log, <<p, "write">>)
  /\ UNCHANGED <<now, nextId, last, pre, delRun, store, loaded, storeLast,
                 view>>

\* the callers have the outcomes of their calls, and no call is in progress
SettledAll ==
  /\ \A p \in Procs : calls[p].pc \in {"idle", "done"}
  /\ \E p \in Procs : calls[p].pc = "done"
  /\ calls' = [p \in Procs |-> NoFlight]
  /\ log' = <<>>
  /\ UNCHANGED <<storage, now, nextId, last, pre, delRun, store, loaded,
                 storeLast, view>>

NextOverlap ==
  \/ \E p \in Procs : BeginCreate(p)
  \/ \E p \in Procs : BeginUpdate(p)
  \/ \E p \in Procs : BeginDelete(p)
  \/ \E p \in Procs : Read(p)
  \/ \E p \in Procs : Write(p)
  \/ SettledAll

SpecOverlap == Init /\ [][NextOverlap]_vars

(***************************************************************************)
(* useEventStore.  Each action of the store sets isLoading and clears      *)
(* error, awaits one call of EventService, and sets its state from the     *)
(* outcome.  The calls of the store are made one after the other here.     *)
(***************************************************************************)
\* get().events.filter(event => event.date === date)
storeGetEventsByDate(st, date) == filterByDate(st.events, date)

\* a catch block that also empties the events
setFailed_dropsEvents(st, message) ==
  [st EXCEPT !.error = message, !.isLoading = FALSE, !.events = <<>>]

\* set({ error: error.message, isLoading: false })
setFailed(st, message) == [st EXCEPT !.error = message, !.isLoading = FALSE]

\* set({ isLoading: true, error: null }) and then set({ events, isLoading: false })
setEvents(st, events) ==
  [st EXCEPT !.events = events, !.isLoading = FALSE, !.error = Null]

\* state.events.map(event => event.id === id ? updatedEvent : event)
mapReplace(events, id, updatedEvent) ==
  [i \in 1..Len(events) |-> IF events[i].id = id THEN updatedEvent ELSE events[i]]

\* the stored value, the clock and the uuids after the service call of a
\* store action
Service(out) ==
  /\ nextId + out.ids <= MaxId + 1
  /\ storage' = out.storage
  /\ now' = out.clock
  /\ nextId' = nextId + out.ids
  /\ UNCHANGED <<last, pre, delRun, calls, log, view>>

\* a call of the store, made when no other call of the store is in progress
\* (storeLast = NoStoreCall), leaves what it did; rejected: the catch block of
\* the action throws the error again
Settles(op, id, form, out, rejected) ==
  storeLast' = StoreCall(op, id, form, out, rejected, store)

StoreLoadEvents ==
  /\ storeLast = NoStoreCall
  /\ \E fault \in Faults \ {"write"} :
       \E out \in {getAllEventsCall(storage, fault = "read", now)} :
         /\ Service(out)
         /\ store' = IF out.status = "ok" THEN setEvents(store, out.value)
                     ELSE setFailed(store, out.error)
         /\ loaded' = (out.status = "ok")
         /\ Settles("loadEvents", 0, NoForm, out, FALSE)

StoreAddEvent ==
  /\ storeLast = NoStoreCall
  /\ \E eventData \in Forms :
       \E env \in EnvOf(eventData) :
         /\ env.t2 \in ClockAfter(env.t1)
         /\ \E out \in {createEvent(storage, eventData, nextId, env.t1, env.t2,
                                    env.fault = "read", env.fault = "write", now)} :
              /\ Service(out)
              /\ store' = IF out.status = "ok"
                          THEN setEvents(store, Append(store.events, out.value[1]))
                          ELSE setFailed(store, out.error)
              /\ loaded' = (loaded /\ out.status = "ok")
              /\ Settles("addEvent", 0, eventData, out, out.status # "ok")

\* when updateEvent resolves with null the store sets nothing more: isLoading
\* stays true
StoreUpdateEvent ==
  /\ storeLast = NoStoreCall
  /\ \E id \in Ids, eventData \in Forms :
       \E env \in EnvOf(eventData) :
         /\ env.t2 = env.t1
         /\ \E out \in {updateEvent(storage, id, eventData, env.t1,
                                    env.fault = "read", env.fault = "write", now)} :
              /\ Service(out)
              /\ store' =
                   IF out.status # "ok" THEN setFailed(store, out.error)
                   ELSE IF out.value = <<>>
                   THEN [store EXCEPT !.isLoading = TRUE, !.error = Null]
                   ELSE setEvents(store, mapReplace(store.events, id, out.value[1]))
              /\ loaded' = (loaded /\ out.status = "ok")
              /\ Settles("updateEvent", id, eventData, out, out.status # "ok")

StoreDeleteEvent ==
  /\ storeLast = NoStoreCall
  /\ \E id \in Ids, fault \in Faults :
       \E out \in {deleteEvent(storage, id, fault = "read", fault = "write", now)} :
         /\ Service(out)
         /\ store' =
              IF out.status = "ok"
              THEN setEvents(store, SelectSeq(store.events, LAMBDA event : event.id # id))
              ELSE setFailed(store, out.error)
         /\ loaded' = (loaded /\ out.status = "ok")
         /\ Settles("deleteEvent", id, NoForm, out, out.status # "ok")

StoreClearAllEvents ==
  /\ storeLast = NoStoreCall
  /\ \E fault \in Faults \ {"read"} :
       \E out \in {clearAllEvents(storage, fault = "write", now)} :
         /\ Service(out)
         /\ store' = IF out.status = "ok" THEN setEvents(store, <<>>)
                     ELSE setFailed(store, out.error)
         /\ loaded' = (loaded /\ out.status = "ok")
         /\ Settles("clearAllEvents", 0, NoForm, out, FALSE)

StoreSetSelectedDate ==
  /\ storeLast = NoStoreCall
  /\ \E date \in Dates : store' = [store EXCEPT !.selectedDate = date]
  /\ UNCHANGED <<storage, now, nextId, last, pre, delRun, calls, log, loaded,
                 storeLast, view>>

\* the caller has the outcome of its call of the store
StoreSettled ==
  /\ storeLast # NoStoreCall
  /\ storeLast' = NoStoreCall
  /\ UNCHANGED <<storage, now, nextId, last, pre, delRun, calls, log, store,
                 loaded, view>>

NextStore ==
  \/ StoreLoadEvents
  \/ StoreAddEvent
  \/ StoreUpdateEvent
  \/ StoreDeleteEvent
  \/ StoreClearAllEvents
  \/ StoreSetSelectedDate
  \/ StoreSettled

SpecStore == Init /\ [][NextStore]_vars

(***************************************************************************)
(* Overlapping calls of the store.  An action of the store sets isLoading  *)
(* and clears error when it is called, and sets its state from the outcome *)
(* of its call of the service when that call has settled; in between, the  *)
(* backend serves the read and the write of the service call, and the      *)
(* steps of another action can run.  A caller begins a call only when no   *)
(* completed call is waiting for its caller, so two calls that are both    *)
(* "done" began before either of them completed.  The backend serves every *)
(* request here, so an action fails only by validation.                    *)
(***************************************************************************)
\* set({ isLoading: true, error: null })
setLoading(st) == [st EXCEPT !.isLoading = TRUE, !.error = Null]

\* the forms of the overlapping calls of the store: a valid one, and one
\* that validation rejects
StoreOverlapForms ==
  {FormA, Form(Blank1, Undefined, Date0301, T1000, T1100, Undefined)}

\* caller p can begin a call: no call has completed without its caller having
\* its outcome, and of two callers the one that begins first is caller 1
MayBegin(p) ==
  /\ calls[p].pc = "idle"
  /\ \A q \in Procs : calls[q].pc # "done"
  /\ p = 1 \/ calls[1].pc # "idle"

BeginLoadEvents(p) ==
  /\ MayBegin(p)
  /\ store' = setLoading(store)
  /\ calls' = InFlight(p, "reading", "loadEvents", 0, NoForm, <<>>, Absent,
                       <<>>, "")
  /\ UNCHANGED <<storage, now, nextId, last, pre, delRun, log, loaded,
                 storeLast, view>>

BeginAddEvent(p) ==
  /\ MayBegin(p)
  /\ store' = setLoading(store)
  /\ \E eventData \in StoreOverlapForms :
       IF validateEventData(eventData) # ""
       THEN /\ calls' = InFlight(p, "completing", "addEvent", 0, eventData,
                                 <<>>, Absent, <<>>, "error")
            /\ UNCHANGED <<now, nextId>>
       ELSE \E t1 \in ClockAfter(now) : \E t2 \in ClockAfter(t1) :
              /\ nextId <= MaxId
              /\ calls' = InFlight(p, "reading", "addEvent", 0, eventData,
                                   <<newEventOf(eventData, nextId, t1, t2)>>,
                                   Absent, <<>>, "")
              /\ nextId' = nextId + 1
              /\ now' = t2
  /\ UNCHANGED <<storage, last, pre, delRun, log, loaded, storeLast, view>>

BeginUpdateEvent(p) ==
  /\ MayBegin(p)
  /\ store' = setLoading(store)
  /\ \E id \in Ids, eventData \in StoreOverlapForms :
       IF validateEventData(eventData) # ""
       THEN calls' = InFlight(p, "completing", "updateEvent", id, eventData,
                              <<>>, Absent, <<>>, "error")
       ELSE calls' = InFlight(p, "reading", "updateEvent", id, eventData, <<>>,
                              Absent, <<>>, "")
  /\ UNCHANGED <<storage, now, nextId, last, pre, delRun, log, loaded,
                 storeLast, view>>

BeginDeleteEvent(p) ==
  /\ MayBegin(p)
  /\ store' = setLoading(store)
  /\ \E id \in Ids :
       calls' = InFlight(p, "reading", "deleteEvent", id, NoForm, <<>>,
                         Absent, <<>>, "")
  /\ UNCHANGED <<storage, now, nextId, last, pre, delRun, log, loaded,
                 storeLast, view>>

BeginClearAllEvents(p) ==
  /\ MayBegin(p)
  /\ store' = setLoading(store)
  /\ calls' = InFlight(p, "writing", "clearAllEvents", 0, NoForm, <<>>,
                       Absent, <<>>, "")
  /\ UNCHANGED <<storage, now, nextId, last, pre, delRun, log, loaded,
                 storeLast, view>>

\* what the service call of p's action does with the stored value it reads;
\* t is the Date.now() of updateEvent
StoreComputed(p, t) ==
  LET c == calls[p] IN
  CASE c.op = "loadEvents" -> getAllEventsCall(storage, FALSE, now)
    [] c.op = "addEvent" ->
         createEvent(storage, c.form, c.event[1].id, c.event[1].createdAt,
                     c.event[1].updatedAt, FALSE, FALSE, now)
    [] c.op = "updateEvent" ->
         updateEvent(storage, c.id, c.form, t, FALSE, FALSE, now)
    [] c.op = "deleteEvent" ->
         deleteEvent(storage, c.id, FALSE, FALSE, now)

\* the backend serves the getItem of the service call of p's action; the
\* service call runs on to its setItem request, or to its end when it has
\* nothing to write (getAllEvents, updateEvent of an id that is not stored)
StoreRead(p) ==
  /\ calls[p].pc = "reading"
  /\ \E t \in ClockAfter(now) :
       /\ calls[p].op # "updateEvent" => t = now
       /\ \E out \in {StoreComputed(p, t)} :
            /\ calls' =
                 IF out.writes = 0
                 THEN InFlight(p, "completing", calls[p].op, calls[p].id,
                               calls[p].form, out.value, storage, <<>>, "ok")
                 ELSE InFlight(p, "writing", calls[p].op, calls[p].id,
                               calls[p].form, out.value, storage,
                               out.storage.items, "")
            /\ now' = out.clock
  /\ log' = Append(log, <<p, "read">>)
  /\ UNCHANGED <<storage, nextId, last, pre, delRun, store, loaded,
                 storeLast, view>>

\* the backend serves the setItem or removeItem of the service call, which
\* resolves
StoreWrite(p) ==
  /\ calls[p].pc = "writing"
  /\ storage' = IF calls[p].op = "clearAllEvents"
                THEN removeItem(storage, FALSE).storage
                ELSE Served(storage, calls[p])
  /\ calls' = [calls EXCEPT ![p].pc = "completing", ![p].status = "ok"]
  /\ log' = Append(log, <<p, "write">>)
  /\ UNCHANGED <<now, nextId, last, pre, delRun, store, loaded, storeLast,
                 view>>

\* the state the action sets once its call of the service has settled
Completed(st, c) ==
  IF c.status = "error" THEN setFailed(st, validateEventData(c.form))
  ELSE
    CASE c.op = "loadEvents" -> [st EXCEPT !.events = c.event, !.isLoading = FALSE]
      [] c.op = "addEvent" ->
           [st EXCEPT !.events = Append(st.events, c.event[1]),
                      !.isLoading = FALSE]
      [] c.op = "updateEvent" ->
           IF c.event = <<>> THEN st
           ELSE [st EXCEPT !.events = mapReplace(st.events, c.id, c.event[1]),
                           !.isLoading = FALSE]
      [] c.op = "deleteEvent" ->
           [st EXCEPT !.events = SelectSeq(st.events, LAMBDA event : event.id # c.id),
                      !.isLoading = FALSE]
      [] c.op = "clearAllEvents" ->
           [st EXCEPT !.events = <<>>, !.isLoading = FALSE]

\* the action of p goes on after its await and sets the state of the store
StoreComplete(p) ==
  /\ calls[p].pc = "completing"
  /\ store' = Completed(store, calls[p])
  /\ calls' = [calls EXCEPT ![p].pc = "done"]
  /\ UNCHANGED <<storage, now, nextId, last, pre, delRun, log, loaded,
                 storeLast, view>>

NextStoreOverlap ==
  \/ \E p \in Procs : BeginLoadEvents(p)
  \/ \E p \in Procs : BeginAddEvent(p)
  \/ \E p \in Procs : BeginUpdateEvent(p)
  \/ \E p \in Procs : BeginDeleteEvent(p)
  \/ \E p \in Procs : BeginClearAllEvents(p)
  \/ \E p \in Procs : StoreRead(p)
  \/ \E p \in Procs : StoreWrite(p)
  \/ \E p \in Procs : StoreComplete(p)
  \/ SettledAll

SpecStoreOverlap == Init /\ [][NextStoreOverlap]_vars

(***************************************************************************)
(* EventFormScreen opened for a new event.  The time of day is drawn, the  *)
(* screen computes its default start and end times from it, and the form   *)
(* is submitted with a title and the times untouched.                      *)
(***************************************************************************)
Hours == 0..23

Minutes == 0..59

\* n.toString().padStart(2, '0'), and the HH and mm of date-fns format, for a
\* number below 100
pad2(n) == <<48 + (n \div 10), 48 + (n % 10)>>

\* format(date, 'HH:mm') for a date at hour h and minute m
formatHHmm(h, m) == pad2(h) \o <<58>> \o pad2(m)

\* getCurrentTimeString() at the time of day t
getCurrentTimeString(t) == formatHHmm(t.hour, t.minute)

\* the time of day one minute later
NextMinute(t) ==
  IF t.minute < 59 THEN [hour |-> t.hour, minute |-> t.minute + 1]
  ELSE [hour |-> (t.hour + 1) % 24, minute |-> 0]

\* the index of the first ':' of s, Len(s) + 1 when it has none
RECURSIVE ColonFrom(_, _)
ColonFrom(s, i) ==
  IF i > Len(s) THEN i
  ELSE IF s[i] = 58 THEN i
  ELSE ColonFrom(s, i + 1)

\* s.split(':'), its first two parts
split(s) ==
  LET k == ColonFrom(s, 1)
      rest == SubSeq(s, k + 1, Len(s))
  IN <<SubSeq(s, 1, k - 1), SubSeq(rest, 1, ColonFrom(rest, 1) - 1)>>

\* Number(s) and parseInt(s) for a string of decimal digits
RECURSIVE ToNumber(_)
ToNumber(s) ==
  IF Len(s) = 0 THEN 0
  ELSE 10 * ToNumber(SubSeq(s, 1, Len(s) - 1)) + (s[Len(s)] - 48)

\* Math.round(minutes / 15) * 15: Math.round rounds a half up
RoundedMinutes(minutes) == ((2 * minutes + 15) \div 30) * 15

\* roundTimeToQuarter: Date.setHours(24, 0) is 00:00 of the next day
roundTimeToQuarter(time) ==
  LET hours == ToNumber(split(time)[1])
      minutes == ToNumber(split(time)[2])
      roundedMinutes == RoundedMinutes(minutes)
  IN
  IF roundedMinutes = 60 THEN formatHHmm((hours + 1) % 24, 0)
  ELSE formatHHmm(hours, roundedMinutes)

\* the initial endTime of EventFormScreen for a new event
defaultEndTime(time) ==
  LET hours == split(time)[1]
      minutes == split(time)[2]
      endHour == pad2(ToNumber(hours) + 1)
  IN endHour \o <<58>> \o minutes

\* validateForm of EventFormScreen
validateForm(title, startTime, endTime) ==
  /\ trim(title) # EmptyStr
  /\ ~StrLeq(endTime, startTime)

\* formData of handleSubmit; the description is untouched, the date is the
\* date the screen was opened for, the color is the default
formDataOf(title, v) ==
  Form(trim(title), trim(EmptyStr), Date0301, v.startTime, v.endTime,
       DEFAULT_EVENT_COLOR)

InitForm ==
  /\ storage = Absent
  /\ now = 0
  /\ nextId = 1
  /\ last = NoCall
  /\ pre = Absent
  /\ delRun = NoRun
  /\ calls = [p \in Procs |-> NoFlight]
  /\ log = <<>>
  /\ store = InitialStore
  /\ loaded = FALSE
  /\ storeLast = NoStoreCall
  /\ view \in {[kind |-> "clock", hour |-> h, minute |-> m] :
                 h \in Hours, m \in Minutes}

\* the first render of the screen: the two useState initialisers read the
\* clock one after the other
OpenForm ==
  /\ view.kind = "clock"
  /\ \E t2 \in {[hour |-> view.hour, minute |-> view.minute],
                NextMinute(view)} :
       view' =
         [kind |-> "form", hour |-> view.hour, minute |-> view.minute,
          endHour |-> t2.hour, endMinute |-> t2.minute,
          startTime |->
            roundTimeToQuarter(
              getCurrentTimeString([hour |-> view.hour, minute |-> view.minute])),
          endTime |-> defaultEndTime(getCurrentTimeString(t2))]
  /\ UNCHANGED <<storage, now, nextId, last, pre, delRun, calls, log, store,
                 loaded, storeLast>>

\* handleSubmit for a new event with the title typed in: validateForm, and
\* addEvent of the store with the form data
SubmitForm ==
  /\ view.kind = "form"
  /\ storeLast = NoStoreCall
  /\ \E title \in {StrX, StrXPadded} :
       /\ validateForm(title, view.startTime, view.endTime)
       /\ \E env \in EnvOf(formDataOf(title, view)) :
            /\ env.t2 \in ClockAfter(env.t1)
            /\ \E out \in {createEvent(storage, formDataOf(title, view), nextId,
                                       env.t1, env.t2, env.fault = "read",
                                       env.fault = "write", now)} :
                 /\ Service(out)
                 /\ store' = IF out.status = "ok"
                             THEN setEvents(store, Append(store.events, out.value[1]))
                             ELSE setFailed(store, out.error)
                 /\ loaded' = (loaded /\ out.status = "ok")
                 /\ Settles("addEvent", 0, formDataOf(title, view), out,
                            out.status # "ok")

NextForm ==
  \/ OpenForm
  \/ SubmitForm

SpecForm == InitForm /\ [][NextForm]_vars

(***************************************************************************)
(* createMarkedDatesFromEvents.  MarkedDates is a plain object used as a   *)
(* map from dates to entries: reading marked[key] yields the own property  *)
(* when there is one, and otherwise what Object.prototype has under that   *)
(* name.  An object is modelled as the function from its own keys to their *)
(* values; an entry has the fields that were set on it.                    *)
(***************************************************************************)
\* "2024-03-02"
Date0302 == <<50, 48, 50, 52, 45, 48, 51, 45, 48, 50>>

\* "constructor"
DateConstructor == <<99, 111, 110, 115, 116, 114, 117, 99, 116, 111, 114>>

\* "toString"
DateToString == <<116, 111, 83, 116, 114, 105, 110, 103>>

\* names that every plain object inherits a (truthy) value for
ObjectPrototypeKeys == {DateConstructor, DateToString}

\* !marked[key]
IsUnset(marked, key) ==
  /\ key \notin DOMAIN marked
  /\ key \notin ObjectPrototypeKeys

\* marked[key] = entry
SetKey(marked, key, entry) ==
  [k \in (DOMAIN marked) \cup {key} |-> IF k = key THEN entry ELSE marked[k]]

\* { ...marked[key], selected: true, selectedColor: '#9ACD32' }: the spread
\* copies the own properties of an entry, and nothing of an inherited value
\* or of undefined
SelectedEntry(marked, key) ==
  LET own == IF key \in DOMAIN marked THEN marked[key] ELSE <<>> IN
  [f \in (DOMAIN own) \cup {"selected", "selectedColor"} |->
     IF f = "selected" THEN TRUE
     ELSE IF f = "selectedColor" THEN DEFAULT_EVENT_COLOR
     ELSE own[f]]

\* events.forEach(...) from the i-th event on
RECURSIVE MarkFrom(_, _, _)
MarkFrom(events, i, marked) ==
  IF i > Len(events) THEN marked
  ELSE IF IsUnset(marked, events[i].date)
  THEN MarkFrom(events, i + 1,
                SetKey(marked, events[i].date,
                       [marked |-> TRUE, dotColor |-> events[i].color]))
  ELSE MarkFrom(events, i + 1, marked)

createMarkedDatesFromEvents(events, selectedDate) ==
  LET marked == MarkFrom(events, 1, <<>>) IN
  IF IsFalsy(selectedDate) THEN marked
  ELSE SetKey(marked, selectedDate, SelectedEntry(marked, selectedDate))

\* the longest list of events given to the function
MaxLen == 3

MarkDates == {Date0301, Date0302, DateConstructor}

MarkColors == {DEFAULT_EVENT_COLOR, ColorOther}

\* an event on the given date with the given color, the id is its place in
\* the list
MarkEvent(id, date, color) ==
  newEventOf(Form(StrX, Undefined, date, T0900, T1000, color), id, 0, 0)

EventLists ==
  UNION {{[i \in 1..n |-> MarkEvent(i, dates[i], colors[i])] :
            dates \in [1..n -> MarkDates], colors \in [1..n -> MarkColors]} :
           n \in 0..MaxLen}

\* no selected date, '', a date with or without events, and "toString"
SelectedDates == {Undefined, EmptyStr} \cup MarkDates \cup {DateToString}

InitMarked ==
  /\ storage = Absent
  /\ now = 0
  /\ nextId = 1
  /\ last = NoCall
  /\ pre = Absent
  /\ delRun = NoRun
  /\ calls = [p \in Procs |-> NoFlight]
  /\ log = <<>>
  /\ store = InitialStore
  /\ loaded = FALSE
  /\ storeLast = NoStoreCall
  /\ view \in {[kind |-> "events", events |-> events, selectedDate |-> date] :
                 events \in EventLists, date \in SelectedDates}

\* CalendarScreen computes the marked dates of the events it was given
CreateMarkedDates ==
  /\ view.kind = "events"
  /\ view' = [kind |-> "marked", events |-> view.events,
              selectedDate |-> view.selectedDate,
              markedDates |->
                createMarkedDatesFromEvents(view.events, view.selectedDate)]
  /\ UNCHANGED <<storage, now, nextId, last, pre, delRun, calls, log, store,
                 loaded, storeLast>>

NextMarked == CreateMarkedDates

SpecMarked == InitMarked /\ [][NextMarked]_vars

(***************************************************************************)
(* Vocabulary of the properties.                                           *)
(***************************************************************************)
\* the stored events, in the order of the stored text
Persisted(st) == JSONparse(st.items)

\* what getAllEvents() resolves with when the backend read succeeds
Listing(st) == getAllEvents(st, FALSE).events

IdsIn(events) == {events[i].id : i \in 1..Len(events)}

\* the indexes of the events with the given id
IndexesOf(events, id) == {i \in 1..Len(events) : events[i].id = id}

\* the seven validation rules, as the specification words them
TwoDigits(s, i) == 10 * (s[i] - 48) + (s[i + 1] - 48)

IsHHmm(s) ==
  /\ s # Undefined
  /\ Len(s) = 5
  /\ \A i \in {1, 2, 4, 5} : IsDigit(s[i])
  /\ s[3] = 58
  /\ TwoDigits(s, 1) <= 23
  /\ TwoDigits(s, 4) <= 59

Rule1(f) == f.title # Undefined /\ trim(f.title) # EmptyStr

Rule2(f) == f.date # Undefined /\ f.date # EmptyStr

Rule3(f) == f.startTime # Undefined /\ f.startTime # EmptyStr

Rule4(f) == f.endTime # Undefined /\ f.endTime # EmptyStr

Rule5(f) == IsHHmm(f.startTime)

Rule6(f) == IsHHmm(f.endTime)

Rule7(f) == StrLess(f.startTime, f.endTime)

SatisfiesRules(f) ==
  Rule1(f) /\ Rule2(f) /\ Rule3(f) /\ Rule4(f) /\ Rule5(f) /\ Rule6(f) /\ Rule7(f)

ValidationMessages ==
  { "Event title is required", "Event date is required",
    "Start time is required", "End time is required",
    "Invalid start time format", "Invalid end time format",
    "End time must be after start time" }

\* C1: createEvent and updateEvent reject a form that breaks one of the seven
\* rules with a validation error, without any backend read or write, and the
\* stored value (key presence included) is what it was before the call.
C1_InvalidFormRejectedBeforeStorage ==
  (last.op \in {"createEvent", "updateEvent"} /\ ~SatisfiesRules(last.form)) =>
    /\ last.status = "error"
    /\ last.error \in ValidationMessages
    /\ last.reads = 0
    /\ last.writes = 0
    /\ storage = pre

\* an invalid form given to updateEvent with the id of a stored event
C1_Witness ==
  /\ last.op = "updateEvent"
  /\ ~SatisfiesRules(last.form)
  /\ last.id \in IdsIn(Persisted(pre))
  /\ last.status = "error"

\* C2: after a successful createEvent(f) the listing holds exactly one event
\* with the returned id, with f's trimmed title and description, f's date and
\* times, f's color or the default, an id not stored before, and
\* createdAt = updatedAt.
C2_CreateRoundTrip ==
  (last.op = "createEvent" /\ last.status = "ok") =>
    LET created == last.value[1]
        all == Listing(storage)
        f == last.form
    IN
    /\ Cardinality(IndexesOf(all, created.id)) = 1
    /\ \A i \in IndexesOf(all, created.id) :
         /\ all[i].title = trim(f.title)
         /\ all[i].description = OptTrim(f.description)
         /\ all[i].date = f.date
         /\ all[i].startTime = f.startTime
         /\ all[i].endTime = f.endTime
         /\ all[i].color = (IF IsFalsy(f.color) THEN DEFAULT_EVENT_COLOR ELSE f.color)
         /\ all[i].createdAt = all[i].updatedAt
    /\ created.id \notin IdsIn(Persisted(pre))

\* the same round trip without the equality of the two timestamps
C2_RoundTripFields ==
  (last.op = "createEvent" /\ last.status = "ok") =>
    LET created == last.value[1]
        all == Listing(storage)
        f == last.form
    IN
    /\ Cardinality(IndexesOf(all, created.id)) = 1
    /\ \A i \in IndexesOf(all, created.id) :
         /\ all[i].title = trim(f.title)
         /\ all[i].description = OptTrim(f.description)
         /\ all[i].date = f.date
         /\ all[i].startTime = f.startTime
         /\ all[i].endTime = f.endTime
         /\ all[i].color = (IF IsFalsy(f.color) THEN DEFAULT_EVENT_COLOR ELSE f.color)
         /\ all[i].createdAt <= all[i].updatedAt
    /\ created.id \notin IdsIn(Persisted(pre))

\* (date, startTime) of a before-or-equal that of b under the comparison of
\* JavaScript strings by code units
LexLeq(a, b) ==
  \/ StrLess(a.date, b.date)
  \/ a.date = b.date /\ StrLeq(a.startTime, b.startTime)

SameSlot(a, b) == a.date = b.date /\ a.startTime = b.startTime

\* YYYY-MM-DD: four, two and two digits joined by '-'
IsCanonicalDate(s) ==
  /\ Len(s) = 10
  /\ \A i \in {1, 2, 3, 4, 6, 7, 9, 10} : IsDigit(s[i])
  /\ s[5] = 45
  /\ s[8] = 45

\* the position of the event with the given id in the stored text
StoredPos(st, id) == CHOOSE i \in 1..Len(st.items) : st.items[i].id = id

RECURSIVE OnDate(_, _)
OnDate(all, date) ==
  IF all = <<>> THEN <<>>
  ELSE IF Head(all).date = date THEN <<Head(all)>> \o OnDate(Tail(all), date)
  ELSE OnDate(Tail(all), date)

\* C4: getEventsByDate(d) resolves with exactly the events of getAllEvents()
\* whose date is d, in the same relative order, and writes nothing.
C4_FilterByDate ==
  (last.op = "getEventsByDate" /\ last.status = "ok") =>
    /\ last.value = OnDate(Listing(pre), last.date)
    /\ last.writes = 0
    /\ storage = pre

\* some events are of the date and some are not
C4_Witness ==
  /\ last.op = "getEventsByDate"
  /\ last.status = "ok"
  /\ Len(last.value) >= 1
  /\ Len(last.value) < Len(Listing(pre))

EventById(events, id) == events[CHOOSE i \in 1..Len(events) : events[i].id = id]

\* C5: a successful updateEvent(id, f2) on a stored event keeps its id and
\* createdAt, sets updatedAt to a value not below the previous one, sets the
\* six form fields to f2's values after trim/default, and the stored event is
\* the returned event.
C5_UpdateKeepsIdentity ==
  (last.op = "updateEvent" /\ last.status = "ok" /\ last.value # <<>>) =>
    LET updated == last.value[1]
        f2 == last.form
    IN
    /\ last.id \in IdsIn(Persisted(pre))
    /\ LET old == EventById(Persisted(pre), last.id) IN
       /\ updated.id = old.id
       /\ updated.createdAt = old.createdAt
       /\ updated.updatedAt >= old.updatedAt
    /\ updated.title = trim(f2.title)
    /\ updated.description = OptTrim(f2.description)
    /\ updated.date = f2.date
    /\ updated.startTime = f2.startTime
    /\ updated.endTime = f2.endTime
    /\ updated.color = (IF IsFalsy(f2.color) THEN DEFAULT_EVENT_COLOR ELSE f2.color)
    /\ Cardinality(IndexesOf(Persisted(storage), last.id)) = 1
    /\ EventById(Persisted(storage), last.id) = updated

\* an update that changed the date and the description of a stored event at
\* a later clock value
C5_Witness ==
  /\ last.op = "updateEvent"
  /\ last.status = "ok"
  /\ last.value # <<>>
  /\ last.value[1].updatedAt > EventById(Persisted(pre), last.id).updatedAt
  /\ last.value[1].date # EventById(Persisted(pre), last.id).date
  /\ last.value[1].description = Undefined
  /\ EventById(Persisted(pre), last.id).description # Undefined

\* C6: updateEvent with a valid form and an id no stored event has resolves
\* with null, writes nothing and leaves the stored value as it was.
C6_UpdateMissingId ==
  ( /\ last.op = "updateEvent"
    /\ SatisfiesRules(last.form)
    /\ last.id \notin IdsIn(Persisted(pre))
    /\ last.failedAt # "read" ) =>
    /\ last.status = "ok"
    /\ last.value = <<>>
    /\ last.writes = 0
    /\ storage = pre

\* the id is missing from a stored text that is not in listing order
C6_Witness ==
  /\ last.op = "updateEvent"
  /\ SatisfiesRules(last.form)
  /\ last.id \notin IdsIn(Persisted(pre))
  /\ last.status = "ok"
  /\ Persisted(pre) # Listing(pre)

\* C7: deleteEvent(id) twice in a row succeeds both times (it fails only
\* when a backend call fails), no event has the id after the first call, and
\* the second call leaves the stored value of the first.
C7_DeleteIdempotent ==
  /\ (last.op = "deleteEvent" /\ last.status = "error") =>
       last.failedAt \in {"read", "write"}
  /\ (last.op = "deleteEvent" /\ last.status = "ok") =>
       last.id \notin IdsIn(Persisted(storage))
  /\ (last.op = "deleteEvent" /\ delRun.n = 2) =>
       /\ last.status = "ok"
       /\ last.id \notin IdsIn(Persisted(pre))
       /\ storage = pre

\* the second of two deleteEvent calls with one id, other events remaining
C7_Witness ==
  /\ last.op = "deleteEvent"
  /\ delRun.n = 2
  /\ Len(storage.items) >= 1

\* C8 as claimed: deleteEvent with an id no stored event has raises no error
\* and leaves the stored value identical (same sequence, same order, the key
\* absent if it was absent).
C8_DeleteMissingIsNoOp ==
  ( /\ last.op = "deleteEvent"
    /\ last.id \notin IdsIn(Persisted(pre))
    /\ last.failedAt = "" ) =>
    /\ last.status = "ok"
    /\ storage = pre

\* C8 as amended: such a call raises no error and the listing is the same
\* afterwards, but the key is written: it holds the events in listing order,
\* and is present even if it was absent before.
C8_DeleteMissingKeepsListing ==
  ( /\ last.op = "deleteEvent"
    /\ last.id \notin IdsIn(Persisted(pre))
    /\ last.failedAt = "" ) =>
    /\ last.status = "ok"
    /\ Listing(storage) = Listing(pre)
    /\ last.writes = 1
    /\ storage.present
    /\ Persisted(storage) = Listing(pre)

\* the id is missing and the stored text was not in listing order
C8_Witness ==
  /\ last.op = "deleteEvent"
  /\ last.id \notin IdsIn(Persisted(pre))
  /\ last.status = "ok"
  /\ Persisted(pre) # Listing(pre)
  /\ storage # pre

\* C9: after a successful clearAllEvents() the key is absent from the
\* backend and getAllEvents() resolves with the empty sequence.
C9_ClearAllRemovesKey ==
  (last.op = "clearAllEvents" /\ last.status = "ok") =>
    /\ ~storage.present
    /\ ~getAllEvents(storage, FALSE).threw
    /\ Listing(storage) = <<>>

\* the key was present with events before the call
C9_Witness ==
  /\ last.op = "clearAllEvents"
  /\ last.status = "ok"
  /\ pre.present
  /\ Len(pre.items) >= 1

MutatingOps == {"createEvent", "updateEvent", "deleteEvent", "clearAllEvents"}

\* C10: when the backend write or key removal of a mutating call fails, the
\* call fails with an error and the stored collection is what it was before.
C10_WriteFailureLeavesCollection ==
  (last.op \in MutatingOps /\ last.failedAt = "write") =>
    /\ last.status = "error"
    /\ last.error \in {"Failed to create event", "Failed to update event",
                       "Failed to delete event", "Failed to clear events"}
    /\ last.value = <<>>
    /\ storage = pre

\* the write of a createEvent failed while events were stored
C10_Witness ==
  /\ last.op = "createEvent"
  /\ last.failedAt = "write"
  /\ Len(pre.items) >= 1

\* C12: starting from empty storage, after any sequence of non-overlapping
\* createEvent, updateEvent, deleteEvent and clearAllEvents calls, successful
\* or failed, no two persisted events have the same id.
C12_UniqueIds ==
  \A i, j \in 1..Len(Persisted(storage)) :
    Persisted(storage)[i].id = Persisted(storage)[j].id => i = j

\* two events are stored and an update has just rewritten the collection
C12_Witness ==
  /\ last.op = "updateEvent"
  /\ last.status = "ok"
  /\ last.writes = 1
  /\ Len(Persisted(storage)) = 2

\* C13: every persisted event has both times in the zero-padded 24-hour form
\* HH:mm (hours 00-23, minutes 00-59) and an endTime strictly greater than its
\* startTime in the lexicographic order of strings.
C13_TimesWellFormed ==
  \A i \in 1..Len(Persisted(storage)) :
    LET e == Persisted(storage)[i] IN
    /\ IsHHmm(e.startTime)
    /\ IsHHmm(e.endTime)
    /\ StrLess(e.startTime, e.endTime)

\* an update has just stored new times for an event
C13_Witness ==
  /\ last.op = "updateEvent"
  /\ last.status = "ok"
  /\ last.writes = 1
  /\ EventById(Persisted(storage), last.id).startTime = last.form.startTime
  /\ EventById(Persisted(pre), last.id).startTime # last.form.startTime

\* C14: every persisted event has a title that is not empty and has no
\* leading or trailing whitespace.
C14_TitleTrimmed ==
  \A i \in 1..Len(Persisted(storage)) :
    LET title == Persisted(storage)[i].title IN
    /\ title # Undefined
    /\ Len(title) >= 1
    /\ ~IsWhiteSpace(title[1])
    /\ ~IsWhiteSpace(title[Len(title)])

\* a form whose title has whitespace around it has just been stored
C14_Witness ==
  /\ last.op \in {"createEvent", "updateEvent"}
  /\ last.status = "ok"
  /\ last.writes = 1
  /\ last.form.title # trim(last.form.title)
  /\ \E i \in 1..Len(Persisted(storage)) :
       Persisted(storage)[i].title = trim(last.form.title)

\* C15: every persisted event has a date in the canonical form YYYY-MM-DD.
C15_DatesCanonical ==
  \A i \in 1..Len(Persisted(storage)) :
    IsCanonicalDate(Persisted(storage)[i].date)

\* C17: in createEvent and updateEvent the stored color is the default
\* constant when the input color is absent or the empty string, and the input
\* color unchanged for any other string, a value outside the six-entry
\* palette included.
C17_ColorDefaulting ==
  (/\ last.op \in {"createEvent", "updateEvent"}
   /\ last.status = "ok"
   /\ last.writes = 1) =>
    LET stored == EventById(Persisted(storage), last.value[1].id) IN
    stored.color =
      (IF last.form.color = Undefined \/ last.form.color = EmptyStr
       THEN DEFAULT_EVENT_COLOR
       ELSE last.form.color)

\* an update has just stored a color that is not one of the palette on an
\* event that had the default
C17_Witness ==
  /\ last.op = "updateEvent"
  /\ last.status = "ok"
  /\ last.writes = 1
  /\ last.form.color \notin EventColor \cup {Undefined, EmptyStr}
  /\ EventById(Persisted(pre), last.id).color = DEFAULT_EVENT_COLOR
  /\ EventById(Persisted(storage), last.id).color = last.form.color

\* the one message each operation rejects with when a backend call failed
CoarseError(op) ==
  CASE op \in {"getAllEvents", "getEventsByDate"} -> "Failed to load events"
    [] op = "createEvent" -> "Failed to create event"
    [] op = "updateEvent" -> "Failed to update event"
    [] op = "deleteEvent" -> "Failed to delete event"
    [] op = "clearAllEvents" -> "Failed to clear events"

\* C18: every backend failure is caught at the service boundary: a call one
\* of whose backend calls failed (a read that fails or cannot be decoded, a
\* write or a key removal that fails) rejects, with the message of its own
\* operation (the load message for getAllEvents and getEventsByDate) and
\* never with the error of the backend, and no call resolves after one of its
\* backend calls failed.
C18_BackendFailuresCaught ==
  last # NoCall =>
    /\ last.failedAt \in {"read", "write"} =>
         /\ last.status = "error"
         /\ last.error = CoarseError(last.op)
         /\ last.value = <<>>
    /\ last.status = "ok" => last.failedAt = ""
    /\ last.status = "error" =>
         last.error \in ValidationMessages \cup {CoarseError(last.op)}

\* the read inside an updateEvent of a stored event failed
C18_Witness ==
  /\ last.op = "updateEvent"
  /\ last.failedAt = "read"
  /\ last.id \in IdsIn(Persisted(pre))
  /\ last.error = "Failed to update event"

\* every event of before other than those with the given id is stored in
\* after, with all its fields
OthersKept(before, after, id) ==
  \A i \in 1..Len(before) :
    before[i].id # id => \E j \in 1..Len(after) : after[j] = before[i]

\* C19: a successful createEvent, updateEvent or deleteEvent changes only the
\* targeted event: every other persisted event is still persisted with all
\* its fields unchanged; createEvent makes the collection one longer,
\* updateEvent leaves its length, and deleteEvent shortens it by the number of
\* events with the given id.
C19_Frame ==
  LET before == Persisted(pre)
      after == Persisted(storage)
  IN
  /\ (last.op = "createEvent" /\ last.status = "ok") =>
       /\ OthersKept(before, after, last.value[1].id)
       /\ Len(after) = Len(before) + 1
  /\ (last.op = "updateEvent" /\ last.status = "ok") =>
       /\ OthersKept(before, after, last.id)
       /\ Len(after) = Len(before)
  /\ (last.op = "deleteEvent" /\ last.status = "ok") =>
       /\ OthersKept(before, after, last.id)
       /\ Len(after) = Len(before) - Cardinality(IndexesOf(before, last.id))

\* an update has just rewritten one of two stored events
C19_Witness ==
  /\ last.op = "updateEvent"
  /\ last.status = "ok"
  /\ last.writes = 1
  /\ Len(Persisted(pre)) = 2
  /\ EventById(Persisted(pre), last.id) # EventById(Persisted(storage), last.id)

\* the reason of the first rule a form breaks, in the order of the rules
FirstViolation(f) ==
  IF ~Rule1(f) THEN "Event title is required"
  ELSE IF ~Rule2(f) THEN "Event date is required"
  ELSE IF ~Rule3(f) THEN "Start time is required"
  ELSE IF ~Rule4(f) THEN "End time is required"
  ELSE IF ~Rule5(f) THEN "Invalid start time format"
  ELSE IF ~Rule6(f) THEN "Invalid end time format"
  ELSE IF ~Rule7(f) THEN "End time must be after start time"
  ELSE ""

\* C16: validation accepts a form exactly when all seven rules hold; a form
\* that breaks several rules is rejected with the reason of the first rule it
\* breaks in the order title required, date required, start time required,
\* end time required, start time format, end time format, end after start;
\* createEvent and updateEvent give the same reason for the same form.
C16_FirstViolatedRule ==
  last.op \in {"createEvent", "updateEvent"} =>
    /\ SatisfiesRules(last.form) <=> last.failedAt # "validation"
    /\ ~SatisfiesRules(last.form) =>
         /\ last.status = "error"
         /\ last.error = FirstViolation(last.form)

\* updateEvent has rejected a form that breaks the rules on the title, on the
\* start time and on the format of the end time
C16_Witness ==
  /\ last.op = "updateEvent"
  /\ ~Rule1(last.form)
  /\ ~Rule3(last.form)
  /\ ~Rule6(last.form)
  /\ last.form.endTime # EmptyStr
  /\ last.error = "Event title is required"

\* both calls read before either wrote, and both wrote
ReadReadWriteWrite ==
  /\ Len(log) = 4
  /\ log[1][2] = "read"
  /\ log[2][2] = "read"
  /\ log[3][2] = "write"
  /\ log[4][2] = "write"

\* the text the call would store if it ran alone on the value it read
AloneOn(c) ==
  CASE c.op = "createEvent" ->
         createEvent(c.snapshot, c.form, c.event[1].id, c.event[1].createdAt,
                     c.event[1].updatedAt, FALSE, FALSE, 0).storage.items
    [] c.op = "updateEvent" ->
         updateEvent(c.snapshot, c.id, c.form, c.event[1].updatedAt,
                     FALSE, FALSE, 0).storage.items
    [] c.op = "deleteEvent" ->
         deleteEvent(c.snapshot, c.id, FALSE, FALSE, 0).storage.items

\* C11: when two mutating calls are in flight and both read the collection
\* before either writes, each writes back its own whole collection and the
\* later write replaces the earlier one in full: both calls resolve, the
\* stored collection is the one the later writer computed from what it read,
\* as if the earlier call had never run, and of the new events of two
\* overlapping createEvent calls only that of the later writer is persisted;
\* an event the earlier call updated or deleted is stored as it was read,
\* unless the later call updates or deletes that same event itself.
C11_LaterWriteWins ==
  ReadReadWriteWrite =>
    LET earlier == calls[log[3][1]]
        later == calls[log[4][1]]
    IN
    /\ earlier.status = "ok"
    /\ later.status = "ok"
    /\ earlier.snapshot = later.snapshot
    /\ storage.items = later.text
    /\ storage.items = AloneOn(later)
    /\ earlier.op = "createEvent" =>
         earlier.event[1].id \notin IdsIn(Persisted(storage))
    /\ (earlier.op = "createEvent" /\ later.op = "createEvent") =>
         /\ later.event[1].id \in IdsIn(Persisted(storage))
         /\ Len(Persisted(storage)) = Len(Persisted(earlier.snapshot)) + 1
    /\ (/\ earlier.op \in {"updateEvent", "deleteEvent"}
        /\ later.op \in {"updateEvent", "deleteEvent"} => later.id # earlier.id
        /\ earlier.id \in IdsIn(Persisted(earlier.snapshot))) =>
         /\ earlier.id \in IdsIn(Persisted(storage))
         /\ EventById(Persisted(storage), earlier.id)
              = EventById(Persisted(earlier.snapshot), earlier.id)

\* two createEvent calls have overlapped on empty storage and both have
\* resolved: one event is stored
C11_Witness ==
  /\ ReadReadWriteWrite
  /\ \A p \in Procs : calls[p].op = "createEvent" /\ calls[p].status = "ok"
  /\ Len(Persisted(storage)) = 1

\* C20: after a successful loadEvents followed by successful addEvent,
\* updateEvent, deleteEvent and clearAllEvents calls of the store, made one
\* after the other, the events of the store are the sequence getAllEvents()
\* resolves with, so for every date the store's getEventsByDate returns the
\* events of EventService.getEventsByDate in the same order.  Stated for the
\* collections whose dates are all YYYY-MM-DD.
C20_StoreMirrorsStorage ==
  (/\ loaded
   /\ \A i \in 1..Len(Persisted(storage)) :
        IsCanonicalDate(Persisted(storage)[i].date)) =>
    /\ store.events = Listing(storage)
    /\ \A date \in Dates :
         storeGetEventsByDate(store, date) = filterByDate(Listing(storage), date)

\* the same without the order: the store holds each stored event once, and
\* nothing else
C20_StoreHoldsStoredEvents ==
  loaded =>
    /\ Len(store.events) = Len(Listing(storage))
    /\ \A i \in 1..Len(store.events) :
         \E j \in 1..Len(Listing(storage)) : Listing(storage)[j] = store.events[i]
    /\ \A i, j \in 1..Len(store.events) :
         store.events[i].id = store.events[j].id => i = j

StoreOps ==
  {"loadEvents", "addEvent", "updateEvent", "deleteEvent", "clearAllEvents"}

\* C21: every action of the store (loadEvents, addEvent, updateEvent,
\* deleteEvent, clearAllEvents) that runs on its own leaves isLoading false
\* once it has completed, whether it succeeded, failed or, for updateEvent,
\* found no event with the given id.
C21_IsLoadingFalseAfterCall ==
  storeLast.op \in StoreOps => store.isLoading = FALSE

\* the same for every completed call but an updateEvent that resolved with
\* null
C21_IsLoadingFalseUnlessNull ==
  (/\ storeLast.op \in StoreOps
   /\ ~(storeLast.op = "updateEvent" /\ storeLast.status = "ok"
        /\ storeLast.value = <<>>)) =>
    store.isLoading = FALSE

\* C23: when the call of the service inside addEvent, updateEvent or
\* deleteEvent of the store fails (validation or storage), the store leaves
\* events and selectedDate as they were, sets error to the message of the
\* failure and isLoading to false, and rejects to its caller; a failure
\* inside loadEvents or clearAllEvents sets error and isLoading the same way,
\* leaves events as they were, and does not reject.
C23_StoreFailure ==
  (storeLast.op \in StoreOps /\ storeLast.status = "error") =>
    /\ store.events = storeLast.before.events
    /\ store.selectedDate = storeLast.before.selectedDate
    /\ store.error = storeLast.error
    /\ storeLast.error \in ValidationMessages \cup
         { "Failed to load events", "Failed to create event",
           "Failed to update event", "Failed to delete event",
           "Failed to clear events" }
    /\ store.isLoading = FALSE
    /\ storeLast.op \in {"addEvent", "updateEvent", "deleteEvent"} =>
         storeLast.rejected
    /\ storeLast.op \in {"loadEvents", "clearAllEvents"} => ~storeLast.rejected

\* the write of a deleteEvent of the store failed while the store held events
C23_Witness ==
  /\ storeLast.op = "deleteEvent"
  /\ storeLast.failedAt = "write"
  /\ Len(storeLast.before.events) >= 1
  /\ storeLast.rejected
  /\ store.error = "Failed to delete event"

\* the events, whatever their order and however often each is listed
EventsOf(events) == {events[i] : i \in 1..Len(events)}

\* C22: when a loadEvents call of the store overlaps an addEvent, updateEvent
\* or deleteEvent call of the store, in any interleaving of their backend
\* reads, backend writes and state updates, then once both calls have
\* completed successfully the events of the store are exactly the set of the
\* persisted events.
C22_OverlappedLoadMirrors ==
  (/\ \A p \in Procs : calls[p].pc = "done" /\ calls[p].status = "ok"
   /\ \E p, q \in Procs :
        /\ calls[p].op = "loadEvents"
        /\ calls[q].op \in {"addEvent", "updateEvent", "deleteEvent"}) =>
    EventsOf(store.events) = EventsOf(Persisted(storage))

\* a call of the store has begun and has not completed
Pending(p) == calls[p].pc \in {"reading", "writing", "completing"}

\* C24: isLoading is true in every state in which at least one call of the
\* store has started and not yet completed, also when several calls overlap.
C24_IsLoadingWhilePending ==
  (\E p \in Procs : Pending(p)) => store.isLoading

\* the screen has its default times, both computed from one time of day
OneTime ==
  /\ view.kind = "form"
  /\ view.endHour = view.hour
  /\ view.endMinute = view.minute

\* C25: for every time of day, the default startTime and endTime that
\* EventFormScreen computes for a new event are both HH:mm strings with hour
\* 00-23 and minute 00-59, with endTime after startTime, and a new event
\* submitted with a non-empty title and these times passes the validation of
\* the service.
C25_DefaultTimesValid ==
  /\ OneTime =>
       /\ IsHHmm(view.startTime)
       /\ IsHHmm(view.endTime)
       /\ StrLess(view.startTime, view.endTime)
  /\ (OneTime /\ storeLast.op = "addEvent") =>
       storeLast.failedAt # "validation"

\* the same when the clock read for the end time is before 23:00
C25_DefaultTimesValidBefore23 ==
  /\ (view.kind = "form" /\ view.endHour < 23) =>
       /\ IsHHmm(view.startTime)
       /\ IsHHmm(view.endTime)
       /\ StrLess(view.startTime, view.endTime)
  /\ (view.kind = "form" /\ view.endHour < 23 /\ storeLast.op = "addEvent") =>
       storeLast.failedAt # "validation"

\* the dates of the events of a list
DatesOf(events) == {events[i].date : i \in 1..Len(events)}

\* the first event of the list on the given date
FirstOn(events, date) ==
  events[CHOOSE i \in 1..Len(events) :
           /\ events[i].date = date
           /\ \A j \in 1..(i - 1) : events[j].date # date]

\* what C26 says of the marked dates computed from a list of events and a
\* selected date (undefined and '' are no selected date)
MarkedAsClaimed(marked, events, selectedDate) ==
  /\ DOMAIN marked =
       DatesOf(events) \cup (IF IsFalsy(selectedDate) THEN {} ELSE {selectedDate})
  /\ \A date \in DatesOf(events) :
       /\ "marked" \in DOMAIN marked[date]
       /\ marked[date].marked = TRUE
       /\ marked[date].dotColor = FirstOn(events, date).color
  /\ ~IsFalsy(selectedDate) =>
       /\ marked[selectedDate].selected = TRUE
       /\ selectedDate \notin DatesOf(events) =>
            DOMAIN marked[selectedDate] = {"selected", "selectedColor"}

\* C26: for every event list and optional selected date,
\* createMarkedDatesFromEvents returns an entry for exactly the dates that
\* have at least one event plus the selected date; each date with events is
\* marked, with the dot color of the first event on that date in list order;
\* the entry of the selected date has selected = true and keeps its marked
\* flag and dot color when the date also has events.
C26_MarkedDates ==
  view.kind = "marked" =>
    MarkedAsClaimed(view.markedDates, view.events, view.selectedDate)

\* the same for the lists none of whose dates is the name of a property of
\* Object.prototype
C26_MarkedDatesOwnNames ==
  (view.kind = "marked" /\ DatesOf(view.events) \cap ObjectPrototypeKeys = {}) =>
    MarkedAsClaimed(view.markedDates, view.events, view.selectedDate)

====
